---- MODULE Spec2Model ----
(***************************************************************************)
(* One invocation of Workflow.Run (src/workflow.go) as a state machine.    *)
(*                                                                         *)
(* Strings that the code splits, trims, measures or concatenates (the raw  *)
(* argument, keywords, prefixes, messages) are sequences of tokens; one    *)
(* token is one character, or one fixed literal of the program.            *)
(* A string that is handed to json.Unmarshal is a "wire string": either    *)
(* plain text (not JSON) or the text of a JSON object, kept as the set of  *)
(* members it holds, their values, and the members whose JSON type does    *)
(* not fit the Go field.                                                   *)
(***************************************************************************)
EXTENDS Naturals, Sequences, FiniteSets, TLC

VARIABLES
    final,      \* the -final flag (flag.BoolVar)
    args,       \* flag.Args(): the positional arguments, wire strings
    commands,   \* the []Command given to Run
    mode,       \* var mode ModeType
    arg,        \* var arg string
    data,       \* var data workflowData
    keyword,    \* var keyword string
    prefix,     \* var prefix string
    err,        \* var err error
    items,      \* var items Items (tell mode)
    idx,        \* position of the tell-mode loop over commands
    action,     \* var action Action: index into commands, 0 for nil
    output,     \* var output string (do mode)
    calls,      \* what Run called so far: Items, Do, RunScript
    stdout,     \* what Run wrote to standard output so far
    pc          \* position in Run

vars == <<final, args, commands, mode, arg, data, keyword, prefix, err,
          items, idx, action, output, calls, stdout, pc>>

----------------------------------------------------------------------------
(* Bounds of the model *)

MaxCmds == 2
MaxArgs == 3

----------------------------------------------------------------------------
(* Texts *)

SP == " "
KwFind == <<"f", "i", "n", "d">>
KwOpen == <<"o", "p", "e", "n">>
KwFi == <<"f", "i">>

ModeDo == "do"
ModeTell == "tell"
ModeBack == "back"

RECURSIVE TrimLeft(_)
TrimLeft(s) ==
    IF s # <<>> /\ Head(s) = SP THEN TrimLeft(Tail(s)) ELSE s

RECURSIVE TrimRight(_)
TrimRight(s) ==
    IF s # <<>> /\ s[Len(s)] = SP THEN TrimRight(SubSeq(s, 1, Len(s) - 1)) ELSE s

\* strings.Trim(s, " ")
Trim(s) == TrimRight(TrimLeft(s))

\* Position of the first space of s, 0 when s holds none
FirstSpace(s) ==
    IF \E i \in 1..Len(s) : s[i] = SP
    THEN CHOOSE i \in 1..Len(s) : s[i] = SP /\ \A j \in 1..(i - 1) : s[j] # SP
    ELSE 0

\* SplitCmd(s): the keyword is the run of characters before the first space,
\* the rest is what follows that space
SplitCmd(s) ==
    LET p == FirstSpace(s) IN
    IF p = 0 THEN [cmd |-> s, rest |-> <<>>]
    ELSE [cmd |-> SubSeq(s, 1, p - 1), rest |-> SubSeq(s, p + 1, Len(s))]

\* FuzzyMatches(val, test): the characters of test occur in val, in order
RECURSIVE FuzzyMatches(_, _)
FuzzyMatches(val, test) ==
    IF test = <<>> THEN TRUE
    ELSE IF val = <<>> THEN FALSE
    ELSE IF Head(val) = Head(test) THEN FuzzyMatches(Tail(val), Tail(test))
    ELSE FuzzyMatches(Tail(val), test)

----------------------------------------------------------------------------
(* workflowData and its JSON form *)

Plain(s) == [k |-> "plain", s |-> s]

NoData == Plain(<<>>)

FieldNames == {"keyword", "mode", "mod", "data"}

\* The zero value of workflowData
ZeroData == [Keyword |-> <<>>, Mode |-> "", Mod |-> "", Data |-> NoData]

\* The text of a JSON object: has = the members present, bad = the members
\* present with a value that is not a JSON string
Doc(d, has, bad) ==
    [k |-> "json", has |-> has, bad |-> bad,
     Keyword |-> d.Keyword, Mode |-> d.Mode, Mod |-> d.Mod, Data |-> d.Data]

\* The members json.Marshal writes for a workflowData: every tag is omitempty
NonEmptyFields(d) ==
    {f \in FieldNames :
        \/ f = "keyword" /\ d.Keyword # <<>>
        \/ f = "mode" /\ d.Mode # ""
        \/ f = "mod" /\ d.Mod # ""
        \/ f = "data" /\ d.Data # NoData}

MarshalData(d) == Doc(d, NonEmptyFields(d), {})

\* Stringify(&data)
Stringify(d) == MarshalData(d)

NilErr == [isErr |-> FALSE, msg |-> <<>>]
Errorf(msg) == [isErr |-> TRUE, msg |-> msg]

JsonSyntaxError == Errorf(<<"json: invalid character">>)
JsonTypeError == Errorf(<<"json: cannot unmarshal into Go struct field">>)

\* json.Unmarshal([]byte(w), &d): text that is not JSON leaves d as it is; an
\* object sets the fields whose members it holds and leaves the others; a
\* member of the wrong JSON type is skipped and reported
Unmarshal(w, d) ==
    IF w.k = "plain"
    THEN [data |-> d, err |-> JsonSyntaxError]
    ELSE LET set == w.has \ w.bad IN
         [data |-> [Keyword |-> IF "keyword" \in set THEN w.Keyword ELSE d.Keyword,
                    Mode    |-> IF "mode" \in set THEN w.Mode ELSE d.Mode,
                    Mod     |-> IF "mod" \in set THEN w.Mod ELSE d.Mod,
                    Data    |-> IF "data" \in set THEN w.Data ELSE d.Data],
          err |-> IF w.bad = {} THEN NilErr ELSE JsonTypeError]

----------------------------------------------------------------------------
(* Commands and items *)

\* A nil *ItemArg, and the ItemArg a CommandDef may carry
NilArg == [nil |-> TRUE, Keyword |-> <<>>, Mode |-> "", Data |-> NoData]
FixedArg(k) == [nil |-> FALSE, Keyword |-> k, Mode |-> ModeDo, Data |-> Plain(<<"fixed">>)]

\* A Command with its CommandDef; Filter and Action tell which of the two
\* interfaces the command implements
Cmd(k, enabled, isFilter, isAction, a) ==
    [Keyword |-> k, Description |-> <<"about ">> \o k, Mods |-> {},
     IsEnabled |-> enabled, Arg |-> a, Filter |-> isFilter, Action |-> isAction]

NewItem(title, subtitle, autocomplete, a) ==
    [Title |-> title, Subtitle |-> subtitle, Autocomplete |-> autocomplete,
     Arg |-> a, mods |-> {}, data |-> ZeroData]

\* CommandDef.KeywordItem with the fixed argument of lines 55-57 lost
KeywordItem_NoFixedArg(c) ==
    [Title |-> c.Keyword,
     Autocomplete |-> c.Keyword,
     Subtitle |-> c.Description,
     Arg |-> [nil |-> FALSE, Keyword |-> c.Keyword, Mode |-> "", Data |-> NoData],
     mods |-> c.Mods,
     data |-> ZeroData]

\* CommandDef.KeywordItem
KeywordItem(c) ==
    [Title |-> c.Keyword,
     Autocomplete |-> c.Keyword,
     Subtitle |-> c.Description,
     Arg |-> IF ~c.Arg.nil THEN c.Arg
             ELSE [nil |-> FALSE, Keyword |-> c.Keyword, Mode |-> "", Data |-> NoData],
     mods |-> c.Mods,
     data |-> ZeroData]

ErrorItem(e) == NewItem(<<"Error: ">> \o e.msg, <<>>, <<>>, NilArg)
NoResultsItem == NewItem(<<"No results">>, <<>>, <<>>, NilArg)

\* Sequences over S of length at most n
SeqsUpTo(S, n) == UNION {[1..m -> S] : m \in 0..n}

\* How often e occurs in s
Count(s, e) == Cardinality({i \in 1..Len(s) : s[i] = e})

\* The orders FuzzySort(items, arg) may leave the items in: the same items,
\* each as often as before
FuzzySort(s) ==
    LET elems == {s[i] : i \in 1..Len(s)} IN
    {t \in [1..Len(s) -> elems] : \A e \in elems : Count(t, e) = Count(s, e)}

----------------------------------------------------------------------------
(* What the collaborators may answer *)

ItemA == NewItem(<<"a">>, <<>>, <<"a">>, NilArg)
ItemB == NewItem(<<"b">>, <<>>, <<>>, NilArg)
ItemPool == {ItemA, ItemB}

\* The lists a Filter may return: items of the pool, none of them twice
ItemLists ==
    {l \in SeqsUpTo(ItemPool, Cardinality(ItemPool)) :
        \A i, j \in 1..Len(l) : l[i] = l[j] => i = j}

\* Filter.Items(arg, data) returns items, or an error
FilterResults ==
    {[items |-> l, err |-> NilErr] : l \in ItemLists}
        \cup {[items |-> <<>>, err |-> Errorf(<<"filter failed">>)]}

\* Action.Do(arg, data) returns a string and an error
DoResults ==
    {[out |-> o, err |-> e] :
        o \in {<<>>, <<"opened">>}, e \in {NilErr, Errorf(<<"boom">>)}}

\* One call of a collaborator, with what it answered
Call(op, c, a, d, r) == [op |-> op, cmd |-> c, arg |-> a, data |-> d, ret |-> r]

\* One write to standard output
Emit(l) == [kind |-> "items", items |-> l, text |-> <<>>]
Println(t) == [kind |-> "text", items |-> <<>>, text |-> t]

----------------------------------------------------------------------------
(* The inputs of one invocation *)

Modes == {"", ModeTell, ModeDo, ModeBack, "bogus"}
Mods == {"", "cmd"}
PlainData == {NoData, Plain(<<"/tmp/x">>)}

\* The raw arguments a user may type
ArgTexts ==
    {k \o t : k \in {<<>>, KwFi, KwFind, KwOpen},
              t \in {<<>>, <<SP>>, <<SP, "x">>}}
        \cup {<<SP>> \o KwFind, KwFind \o <<SP, "x", SP>>}

\* The Envelopes an earlier stage may have serialized into the data of a
\* "back" Envelope
InnerEnvelopes ==
    [Keyword : {<<>>, KwOpen}, Mode : {"", ModeTell, ModeDo, ModeBack},
     Mod : {""}, Data : PlainData]

\* The Envelopes an invocation may receive
Envelopes ==
    [Keyword : {<<>>, KwFind, KwOpen}, Mode : Modes, Mod : Mods, Data : PlainData]
        \cup [Keyword : {<<>>, KwFind}, Mode : {ModeBack}, Mod : {""},
              Data : {MarshalData(e) : e \in InnerEnvelopes}]

\* JSON texts that decode without error
GoodDocs == {MarshalData(e) : e \in Envelopes}

\* JSON texts whose "data" member is not a string: the other members decode
BadDocs ==
    {Doc([e EXCEPT !.Data = NoData], NonEmptyFields(e) \cup {"data"}, {"data"}) :
        e \in [Keyword : {<<>>, KwFind}, Mode : {"", ModeTell, ModeDo},
               Mod : {""}, Data : {NoData}]}

SecondArgs == {Plain(<<>>), Plain(<<"not json">>)} \cup GoodDocs \cup BadDocs

\* flag.Args(): no argument; one argument, text or Envelope; two, the first
\* of them text; more than two
Argvs ==
    {<<>>}
        \cup {<<Plain(t)>> : t \in ArgTexts}
        \cup {<<w>> : w \in GoodDocs}
        \cup {<<Plain(t), w>> : t \in ArgTexts, w \in SecondArgs}
        \cup {<<Plain(t), w>> \o [i \in 1..n |-> Plain(<<"extra">>)] :
                t \in {<<>>, KwOpen \o <<SP, "x">>}, w \in SecondArgs,
                n \in 1..(MaxArgs - 2)}

\* The commands of a registry: enabled ones of each capability, an enabled
\* Action with a fixed argument, a disabled Filter and Action
CommandSet ==
    {Cmd(k, TRUE, cap[1], cap[2], NilArg) :
        k \in {KwFind, KwOpen},
        cap \in {<<TRUE, FALSE>>, <<FALSE, TRUE>>, <<TRUE, TRUE>>}}
        \cup {Cmd(k, TRUE, FALSE, TRUE, FixedArg(k)) : k \in {KwFind, KwOpen}}
        \cup {Cmd(k, FALSE, TRUE, TRUE, NilArg) : k \in {KwFind, KwOpen}}

Registries == SeqsUpTo(CommandSet, MaxCmds)

\* Registries and argument lists that between them take every path of Run
CoreRegistries ==
    {<<>>,
     <<Cmd(KwFind, TRUE, TRUE, FALSE, NilArg)>>,
     <<Cmd(KwOpen, TRUE, FALSE, TRUE, NilArg)>>,
     <<Cmd(KwFind, TRUE, TRUE, FALSE, NilArg), Cmd(KwOpen, TRUE, FALSE, TRUE, NilArg)>>,
     <<Cmd(KwFind, FALSE, TRUE, TRUE, NilArg), Cmd(KwFind, TRUE, TRUE, TRUE, NilArg)>>,
     <<Cmd(KwOpen, TRUE, TRUE, FALSE, NilArg), Cmd(KwOpen, TRUE, FALSE, TRUE, FixedArg(KwOpen))>>}

Env(k, m, md, d) == [Keyword |-> k, Mode |-> m, Mod |-> md, Data |-> d]

CoreArgvs ==
    {<<>>,
     <<Plain(<<>>)>>,
     <<Plain(KwFind)>>,
     <<Plain(KwFi)>>,
     <<Plain(KwFind \o <<SP, "x">>)>>,
     <<MarshalData(Env(KwFind, "", "", NoData))>>,
     <<MarshalData(Env(KwFind, ModeTell, "", Plain(<<"/tmp/x">>)))>>,
     <<MarshalData(Env(KwOpen, ModeDo, "", Plain(<<"/tmp/x">>)))>>,
     <<MarshalData(Env(<<>>, "bogus", "", NoData))>>,
     <<Plain(<<>>), MarshalData(Env(KwOpen, ModeDo, "", Plain(<<"/tmp/x">>)))>>,
     <<Plain(<<>>), MarshalData(Env(KwFind, ModeDo, "cmd", NoData))>>,
     <<Plain(KwOpen \o <<SP, "x">>), MarshalData(Env(<<>>, ModeDo, "", NoData))>>,
     <<Plain(KwOpen \o <<SP, "x">>), Plain(<<>>)>>,
     <<Plain(<<SP, "x", SP>>), MarshalData(Env(KwFind, ModeTell, "", NoData))>>,
     <<Plain(<<"x">>), MarshalData(Env(KwOpen, "", "", NoData))>>,
     <<Plain(KwFind), Plain(<<"not json">>)>>,
     <<Plain(KwFind), Doc(Env(KwFind, ModeTell, "", NoData), {"keyword", "mode", "data"}, {"data"})>>,
     <<Plain(KwOpen), Doc(Env(KwOpen, ModeDo, "", NoData), {"keyword", "mode", "data"}, {"data"})>>,
     <<Plain(<<>>), MarshalData(Env(KwFind, ModeBack, "",
                        MarshalData(Env(KwOpen, ModeDo, "", Plain(<<"/tmp/x">>)))))>>,
     <<Plain(<<>>), MarshalData(Env(KwFind, ModeBack, "",
                        MarshalData(Env(<<>>, ModeTell, "", NoData))))>>,
     <<Plain(<<>>), MarshalData(Env(<<>>, ModeBack, "", Plain(<<"/tmp/x">>)))>>,
     <<Plain(<<>>), MarshalData(Env(KwOpen, ModeDo, "", NoData)), Plain(<<"extra">>)>>,
     <<Plain(KwFind), Plain(<<>>), Plain(<<"extra">>)>>}

----------------------------------------------------------------------------
(* Run, step by step *)

Init ==
    /\ final \in BOOLEAN
    /\ \/ args \in Argvs /\ commands \in CoreRegistries
       \/ args \in CoreArgvs /\ commands \in Registries
    /\ mode = ""
    /\ arg = <<>>
    /\ data = ZeroData
    /\ keyword = <<>>
    /\ prefix = <<>>
    /\ err = NilErr
    /\ items = <<>>
    /\ idx = 0
    /\ action = 0
    /\ output = <<>>
    /\ calls = <<>>
    /\ stdout = <<>>
    /\ pc = "parse"

\* The text of an argument as a string; a JSON text counts as one token
TextOf(w) == IF w.k = "plain" THEN w.s ELSE <<"{json}">>

TooManyArgs == Errorf(<<"More than 2 args were provided; only 2 are accepted">>)

\* Lines 151-171: the positional arguments become arg, data and err
ParseArgs(a) ==
    IF Len(a) = 1
    THEN LET r == Unmarshal(a[1], ZeroData) IN
         [arg |-> IF r.err.isErr THEN TextOf(a[1]) ELSE <<>>,
          data |-> r.data,
          err |-> NilErr]
    ELSE IF Len(a) > 1
    THEN IF a[2] # Plain(<<>>)
         THEN LET r == Unmarshal(a[2], ZeroData) IN
              [arg |-> TextOf(a[1]), data |-> r.data, err |-> r.err]
         ELSE [arg |-> TextOf(a[1]), data |-> ZeroData, err |-> NilErr]
    ELSE [arg |-> <<>>, data |-> ZeroData, err |-> TooManyArgs]

Parse ==
    /\ pc = "parse"
    /\ LET r == ParseArgs(args) IN
        /\ arg' = r.arg
        /\ data' = r.data
        /\ err' = r.err
    /\ pc' = "stage"
    /\ UNCHANGED <<final, args, commands, mode, keyword, prefix, items, idx,
                   action, output, calls, stdout>>

\* Lines 177-184: at the final stage an empty mode is tell, and a back
\* Envelope is overwritten by the Envelope its data decodes to
FinalData(d) ==
    LET d1 == IF d.Mode = "" THEN [d EXCEPT !.Mode = ModeTell] ELSE d
    IN IF d1.Mode = ModeBack THEN Unmarshal(d1.Data, d1).data ELSE d1

\* Line 186 with the test of the mode lost
Deferred_AnyMode(d) == TRUE

\* Line 186 with the tell case lost
Deferred_BackOnly(d) == d.Mode = ModeBack

\* Line 186: the modes the final stage hands back to the host
Deferred(d) == d.Mode = ModeBack \/ d.Mode = ModeTell

\* Lines 187-193: the loopback trigger carries the serialized Envelope
LoopbackCall(d, ok) == Call("Loopback", 0, <<>>, Stringify(d), [ok |-> ok])

\* Lines 176-201, when the loopback trigger is issued: Run returns
FinalDefer ==
    /\ pc = "stage"
    /\ ~err.isErr
    /\ final
    /\ Deferred(FinalData(data))
    /\ data' = FinalData(data)
    /\ \E ok \in BOOLEAN :
        calls' = Append(calls, LoopbackCall(data', ok))
    /\ pc' = "done"
    /\ UNCHANGED <<final, args, commands, mode, arg, keyword, prefix, err, items,
                   idx, action, output, stdout>>

\* Lines 176-202, when the mode is neither back nor tell: Run goes on
FinalFallThrough ==
    /\ pc = "stage"
    /\ ~err.isErr
    /\ final
    /\ ~Deferred(FinalData(data))
    /\ data' = FinalData(data)
    /\ pc' = "resolve"
    /\ UNCHANGED <<final, args, commands, mode, arg, keyword, prefix, err, items,
                   idx, action, output, calls, stdout>>

\* Line 176, without the -final flag
NotFinal ==
    /\ pc = "stage"
    /\ ~err.isErr
    /\ ~final
    /\ pc' = "resolve"
    /\ UNCHANGED <<final, args, commands, mode, arg, data, keyword, prefix, err,
                   items, idx, action, output, calls, stdout>>

\* Line 173, with err set: lines 174-230 are skipped
ParseFailed ==
    /\ pc = "stage"
    /\ err.isErr
    /\ pc' = "switch"
    /\ UNCHANGED <<final, args, commands, mode, arg, data, keyword, prefix, err,
                   items, idx, action, output, calls, stdout>>

\* Lines 221-224 with the length test lost
KeywordPrefix_AlwaysSpace(a, k) == k \o <<SP>>

\* Lines 221-224: the prefix is the keyword, and a space when the argument
\* is longer than the keyword
KeywordPrefix(a, k) == IF Len(a) > Len(k) THEN k \o <<SP>> ELSE k

\* Lines 209-230 with the keyword made the prefix on both branches
ResolveKeyword_KeepPrefix(a, k) ==
    IF k = <<>>
    THEN LET s == SplitCmd(a) IN
         [keyword |-> s.cmd, arg |-> s.rest, prefix |-> KeywordPrefix(a, s.cmd)]
    ELSE [keyword |-> k, arg |-> Trim(a), prefix |-> k]

\* Lines 209-230: the keyword, the argument that remains and the prefix
ResolveKeyword(a, k) ==
    IF k = <<>>
    THEN LET s == SplitCmd(a) IN
         [keyword |-> s.cmd, arg |-> s.rest, prefix |-> KeywordPrefix(a, s.cmd)]
    ELSE [keyword |-> k, arg |-> Trim(a), prefix |-> <<>>]

\* Lines 204-230
Resolve ==
    /\ pc = "resolve"
    /\ data' = IF data.Mode = "" THEN [data EXCEPT !.Mode = ModeTell] ELSE data
    /\ LET r == ResolveKeyword(arg, data.Keyword) IN
        /\ keyword' = r.keyword
        /\ arg' = r.arg
        /\ prefix' = r.prefix
    /\ pc' = "switch"
    /\ UNCHANGED <<final, args, commands, mode, err, items, idx, action, output,
                   calls, stdout>>

\* Lines 233-237: case "tell"; the loop over the commands runs when err is nil
EnterTell ==
    /\ pc = "switch"
    /\ data.Mode = "tell"
    /\ items' = <<>>
    /\ idx' = 1
    /\ pc' = IF err.isErr THEN "tell_final" ELSE "tell_loop"
    /\ UNCHANGED <<final, args, commands, mode, arg, data, keyword, prefix, err,
                   action, output, calls, stdout>>

\* Line 250: the command is a Filter and its keyword is the Envelope's
FilterSelected(c, d) == c.Filter /\ c.Keyword = d.Keyword

\* Lines 264-265 with the Filter case lost
MenuSelected_ArgOnly(c, k) == FuzzyMatches(c.Keyword, k) /\ ~c.Arg.nil

\* Lines 264-265: the command gets a menu item
MenuSelected(c, k) == FuzzyMatches(c.Keyword, k) /\ (c.Filter \/ ~c.Arg.nil)

\* Lines 254-261: each item is appended, and then the loop's own copy of it
\* gets the prefix
AppendItems(l, filterItems, p) == l \o filterItems

\* Lines 240-247: a disabled command is skipped
TellSkip ==
    /\ pc = "tell_loop"
    /\ idx <= Len(commands)
    /\ ~commands[idx].IsEnabled
    /\ idx' = idx + 1
    /\ UNCHANGED <<final, args, commands, mode, arg, data, keyword, prefix, err,
                   items, action, output, calls, stdout, pc>>

\* Lines 249-263: the Envelope names a keyword
TellFilter ==
    /\ pc = "tell_loop"
    /\ idx <= Len(commands)
    /\ commands[idx].IsEnabled
    /\ data.Keyword # <<>>
    /\ IF FilterSelected(commands[idx], data)
       THEN \E r \in FilterResults :
                /\ calls' = Append(calls, Call("Items", idx, arg, data.Data, r))
                /\ err' = r.err
                /\ items' = IF r.err.isErr THEN items
                            ELSE AppendItems(items, r.items, prefix)
       ELSE UNCHANGED <<calls, err, items>>
    /\ idx' = idx + 1
    /\ UNCHANGED <<final, args, commands, mode, arg, data, keyword, prefix,
                   action, output, stdout, pc>>

\* Lines 264-269: the Envelope names no keyword
TellMenu ==
    /\ pc = "tell_loop"
    /\ idx <= Len(commands)
    /\ commands[idx].IsEnabled
    /\ data.Keyword = <<>>
    /\ items' = IF MenuSelected(commands[idx], keyword)
                THEN Append(items, KeywordItem(commands[idx]))
                ELSE items
    /\ idx' = idx + 1
    /\ UNCHANGED <<final, args, commands, mode, arg, data, keyword, prefix, err,
                   action, output, calls, stdout, pc>>

\* Lines 272-274, after the loop
TellRank ==
    /\ pc = "tell_loop"
    /\ idx > Len(commands)
    /\ IF arg # <<>> THEN items' \in FuzzySort(items) ELSE items' = items
    /\ pc' = "tell_final"
    /\ UNCHANGED <<final, args, commands, mode, arg, data, keyword, prefix, err,
                   idx, action, output, calls, stdout>>

\* Lines 277-282
Finalize(l, e) ==
    IF e.isErr THEN Append(l, ErrorItem(e))
    ELSE IF Len(l) = 0 THEN Append(l, NoResultsItem)
    ELSE l

\* Lines 478-480: the loop assigns data to its own copy of each item
AttachData(l, d) == l

\* Lines 477-483
SendToAlfred(l, d) == Emit(AttachData(l, d))

\* Lines 277-284
TellFinalize ==
    /\ pc = "tell_final"
    /\ items' = Finalize(items, err)
    /\ stdout' = Append(stdout, SendToAlfred(items', data))
    /\ pc' = "done"
    /\ UNCHANGED <<final, args, commands, mode, arg, data, keyword, prefix, err,
                   idx, action, output, calls>>

\* Lines 286-291: case "do"; the action runs when err is nil
EnterDo ==
    /\ pc = "switch"
    /\ data.Mode = "do"
    /\ output' = <<>>
    /\ pc' = IF err.isErr THEN "do_print" ELSE "do_dismiss"
    /\ UNCHANGED <<final, args, commands, mode, arg, data, keyword, prefix, err,
                   items, idx, action, calls, stdout>>

\* Line 294 with the test of Mod lost
Dismisses_Always(d) == TRUE

\* Line 294: the window is closed unless a modifier key was held
Dismisses(d) == d.Mod = ""

\* Lines 294-297: the result of RunScript is dropped
DoDismiss ==
    /\ pc = "do_dismiss"
    /\ Dismisses(data)
    /\ \E ok \in BOOLEAN :
        calls' = Append(calls, Call("Dismiss", 0, <<>>, NoData, [ok |-> ok]))
    /\ pc' = "do_select"
    /\ UNCHANGED <<final, args, commands, mode, arg, data, keyword, prefix, err,
                   items, idx, action, output, stdout>>

DoKeepWindow ==
    /\ pc = "do_dismiss"
    /\ ~Dismisses(data)
    /\ pc' = "do_select"
    /\ UNCHANGED <<final, args, commands, mode, arg, data, keyword, prefix, err,
                   items, idx, action, output, calls, stdout>>

\* Lines 305-315 with the IsEnabled test of lines 305-307 lost
ActionMatches_IgnoreEnabled(c, k) == c.Action /\ c.Keyword = k

\* Lines 305-315: the command is enabled, is an Action and has the keyword
ActionMatches(c, k) == c.IsEnabled /\ c.Action /\ c.Keyword = k

\* Lines 299-317 with the break of line 314 lost: the last match wins
SelectAction_Last(cmds, k) ==
    IF \E i \in 1..Len(cmds) : ActionMatches(cmds[i], k)
    THEN CHOOSE i \in 1..Len(cmds) :
            /\ ActionMatches(cmds[i], k)
            /\ \A j \in (i + 1)..Len(cmds) : ~ActionMatches(cmds[j], k)
    ELSE 0

\* Lines 299-317: the first command that matches, 0 when none does
SelectAction(cmds, k) ==
    IF \E i \in 1..Len(cmds) : ActionMatches(cmds[i], k)
    THEN CHOOSE i \in 1..Len(cmds) :
            /\ ActionMatches(cmds[i], k)
            /\ \A j \in 1..(i - 1) : ~ActionMatches(cmds[j], k)
    ELSE 0

\* Line 320
NoValidCommand(a) == Errorf(<<"No valid command in '">> \o a \o <<"'">>)

\* Lines 299-320, when no command matches
DoNoCommand ==
    /\ pc = "do_select"
    /\ SelectAction(commands, keyword) = 0
    /\ action' = 0
    /\ err' = NoValidCommand(arg)
    /\ pc' = "do_print"
    /\ UNCHANGED <<final, args, commands, mode, arg, data, keyword, prefix, items,
                   idx, output, calls, stdout>>

\* Lines 299-322, when a command matches
DoAction ==
    /\ pc = "do_select"
    /\ SelectAction(commands, keyword) # 0
    /\ action' = SelectAction(commands, keyword)
    /\ \E r \in DoResults :
        /\ calls' = Append(calls, Call("Do", action', arg, data.Data, r))
        /\ output' = r.out
        /\ err' = r.err
    /\ pc' = "do_print"
    /\ UNCHANGED <<final, args, commands, mode, arg, data, keyword, prefix, items,
                   idx, stdout>>

\* Lines 326-328
DoOutput(o, e) == IF e.isErr THEN <<"Error: ">> \o e.msg ELSE o

\* Lines 326-332
DoPrint ==
    /\ pc = "do_print"
    /\ output' = DoOutput(output, err)
    /\ stdout' = IF output' # <<>> THEN Append(stdout, Println(output')) ELSE stdout
    /\ pc' = "done"
    /\ UNCHANGED <<final, args, commands, mode, arg, data, keyword, prefix, err,
                   items, idx, action, calls>>

\* Line 335: the message is built from the local variable mode
InvalidModeLine(m) ==
    <<"Invalid mode: '">> \o (IF m = "" THEN <<>> ELSE <<m>>) \o <<"'">>

\* Lines 334-336
InvalidMode ==
    /\ pc = "switch"
    /\ data.Mode # "tell"
    /\ data.Mode # "do"
    /\ stdout' = Append(stdout, Println(InvalidModeLine(mode)))
    /\ pc' = "done"
    /\ UNCHANGED <<final, args, commands, mode, arg, data, keyword, prefix, err,
                   items, idx, action, output, calls>>

Next ==
    \/ Parse
    \/ FinalDefer
    \/ FinalFallThrough
    \/ NotFinal
    \/ ParseFailed
    \/ Resolve
    \/ EnterTell
    \/ TellSkip
    \/ TellFilter
    \/ TellMenu
    \/ TellRank
    \/ TellFinalize
    \/ EnterDo
    \/ DoDismiss
    \/ DoKeepWindow
    \/ DoNoCommand
    \/ DoAction
    \/ DoPrint
    \/ InvalidMode

Spec == Init /\ [][Next]_vars

----------------------------------------------------------------------------
(* Vocabulary of the properties *)

\* What the Invocation Parser made of the arguments
Parsed == ParseArgs(args)
RawArg == Parsed.arg
ParseOK == ~Parsed.err.isErr

Done == pc = "done"

CallsOf(op) == {i \in 1..Len(calls) : calls[i].op = op}
NoCommandCalled == CallsOf("Items") = {} /\ CallsOf("Do") = {}

\* The invocation ended by issuing the loopback trigger
Looped == CallsOf("Loopback") # {}

\* The mode switch was entered with this mode
Dispatched(m) == pc \notin {"parse", "stage", "resolve"} /\ ~Looped /\ data.Mode = m

NoSpace(s) == \A i \in 1..Len(s) : s[i] # SP

UniqueKeywords ==
    \A i, j \in 1..Len(commands) :
        commands[i].Keyword = commands[j].Keyword => i = j

----------------------------------------------------------------------------
(* C1 *)

\* argv = ["find"], no -final flag, the registry one enabled Filter "find"
C1_Case ==
    /\ ~final
    /\ args = <<Plain(KwFind)>>
    /\ Len(commands) = 1
    /\ commands[1].IsEnabled
    /\ commands[1].Filter
    /\ commands[1].Keyword = KwFind

\* C1 as stated: the Filter is invoked, and the list emitted is the two items
\* it returned, each autocomplete string prefixed with "find "
C1_FilterInvoked ==
    (C1_Case /\ Done) =>
        /\ data.Mode = ModeTell
        /\ \E i \in CallsOf("Items") :
            /\ calls[i].cmd = 1
            /\ Len(calls[i].ret.items) = 2
            /\ Len(stdout) = 1
            /\ stdout[1].kind = "items"
            /\ Len(stdout[1].items) = 2
            /\ \A j \in 1..2 :
                /\ stdout[1].items[j].Title = calls[i].ret.items[j].Title
                /\ stdout[1].items[j].Autocomplete =
                       KwFind \o <<SP>> \o calls[i].ret.items[j].Autocomplete

\* C1, amended: the invocation reaches tell mode, the Filter's Items is not
\* invoked, and the list emitted is the one menu item of the Filter: title
\* and autocomplete "find", subtitle the description, argument the fixed
\* argument or an Envelope holding the keyword "find" alone
C1_MenuItem ==
    (C1_Case /\ Done) =>
        /\ data.Mode = ModeTell
        /\ NoCommandCalled
        /\ Len(stdout) = 1
        /\ stdout[1].kind = "items"
        /\ Len(stdout[1].items) = 1
        /\ stdout[1].items[1].Title = KwFind
        /\ stdout[1].items[1].Autocomplete = KwFind
        /\ stdout[1].items[1].Subtitle = commands[1].Description
        /\ stdout[1].items[1].Arg =
               IF commands[1].Arg.nil
               THEN [nil |-> FALSE, Keyword |-> KwFind, Mode |-> "", Data |-> NoData]
               ELSE commands[1].Arg

C1_Witness == C1_Case /\ Done /\ Len(stdout) = 1

----------------------------------------------------------------------------
(* C2 *)

\* The enabled Filters whose keyword is the Envelope's
C2_Matching ==
    {i \in 1..Len(commands) :
        /\ commands[i].IsEnabled
        /\ commands[i].Filter
        /\ commands[i].Keyword = data.Keyword}

\* C2 as stated: with unique keywords, tell mode with an Envelope keyword K
\* calls Items on exactly the enabled Filter of keyword K, with the trimmed
\* argument and the Envelope's data; without such a Filter it calls nothing
\* and emits the one item "No results"
C2_RoutesToOneFilter ==
    (Done /\ Dispatched(ModeTell) /\ data.Keyword # <<>> /\ UniqueKeywords) =>
        IF C2_Matching # {}
        THEN /\ Cardinality(CallsOf("Items")) = 1
             /\ CallsOf("Do") = {}
             /\ \A i \in CallsOf("Items") :
                    /\ calls[i].cmd \in C2_Matching
                    /\ calls[i].arg = Trim(RawArg)
                    /\ calls[i].data = data.Data
        ELSE /\ NoCommandCalled
             /\ stdout = <<Emit(<<NoResultsItem>>)>>

----------------------------------------------------------------------------
(* C3 *)

\* C3 as stated, for the invocations whose arguments parse: in do mode, with
\* no enabled Action of the resolved keyword, the output is "Error: No valid
\* command in '<arg>'", <arg> the raw argument as received, and Do is not
\* invoked
C3_ErrorNamesRawArg ==
    (Done /\ Dispatched(ModeDo) /\ ParseOK /\
       ~\E i \in 1..Len(commands) :
            /\ commands[i].IsEnabled
            /\ commands[i].Action
            /\ commands[i].Keyword = keyword) =>
        /\ CallsOf("Do") = {}
        /\ stdout = <<Println(<<"Error: ", "No valid command in '">> \o RawArg \o <<"'">>)>>

----------------------------------------------------------------------------
(* C4 *)

\* Two arguments, the second not empty and not decodable
C4_Case ==
    /\ Len(args) = 2
    /\ args[2] # Plain(<<>>)
    /\ Unmarshal(args[2], ZeroData).err.isErr

\* C4 as stated, without the -final flag: the Envelope stays default-valued,
\* the mode becomes tell, tell-mode dispatch runs, and the decode failure is
\* not the invocation's error
C4_DecodeFailureNotFatal ==
    (C4_Case /\ ~final /\ Done) =>
        /\ data = [ZeroData EXCEPT !.Mode = ModeTell]
        /\ Len(stdout) = 1
        /\ stdout[1].kind = "items"
        /\ \A j \in 1..Len(stdout[1].items) :
            stdout[1].items[j] # ErrorItem(Unmarshal(args[2], ZeroData).err)

----------------------------------------------------------------------------
(* C5 *)

\* C5 as stated: with no positional argument no command is invoked, and the
\* invocation emits one list of one item titled "Error: <message>"
C5_NoArgsErrorItem ==
    (Len(args) = 0 /\ Done) =>
        /\ NoCommandCalled
        /\ Len(stdout) = 1
        /\ stdout[1].kind = "items"
        /\ Len(stdout[1].items) = 1
        /\ Len(stdout[1].items[1].Title) >= 1
        /\ stdout[1].items[1].Title[1] = "Error: "

----------------------------------------------------------------------------
(* C6 *)

\* C6 as stated: three or more positional arguments set the parse error, and
\* no command is invoked
C6_ThreeArgsRejected ==
    Len(args) >= 3 =>
        /\ pc = "stage" => err.isErr
        /\ NoCommandCalled

----------------------------------------------------------------------------
(* C7 *)

\* The -final flag is set, the arguments parse, the Envelope has no mode
C7_Case == final /\ ParseOK /\ Parsed.data.Mode = ""

\* C7: at the final stage an Envelope without a mode is a tell Envelope: no
\* command is invoked, nothing is written, the script runner is called once,
\* with the loopback trigger whose Envelope has the mode "tell", and the
\* invocation ends there, whether the script runner succeeds or fails
C7_FinalEmptyModeDefers ==
    C7_Case =>
        /\ NoCommandCalled
        /\ CallsOf("Dismiss") = {}
        /\ stdout = <<>>
        /\ pc \in {"parse", "stage", "done"}
        /\ Done =>
            /\ Len(calls) = 1
            /\ calls[1].op = "Loopback"
            /\ calls[1].data.k = "json"
            /\ "mode" \in calls[1].data.has
            /\ calls[1].data.Mode = ModeTell
            /\ calls[1].data.Keyword = Parsed.data.Keyword
            /\ calls[1].data.Data = Parsed.data.Data

\* The script runner has failed
C7_Witness == C7_Case /\ Done /\ Len(calls) = 1 /\ ~calls[1].ret.ok

----------------------------------------------------------------------------
(* C8 *)

\* The first enabled Action, in registry order, whose keyword is the
\* resolved keyword
C8_First ==
    {i \in 1..Len(commands) :
        /\ commands[i].IsEnabled /\ commands[i].Action /\ commands[i].Keyword = keyword
        /\ \A j \in 1..(i - 1) :
            ~(commands[j].IsEnabled /\ commands[j].Action /\ commands[j].Keyword = keyword)}

\* argv = ["", {mode: do, keyword: "open", data: "/tmp/x"}], one enabled
\* Action "open" that returns "opened"
C8_Example ==
    /\ args = <<Plain(<<>>), MarshalData(Env(KwOpen, ModeDo, "", Plain(<<"/tmp/x">>)))>>
    /\ commands = <<Cmd(KwOpen, TRUE, FALSE, TRUE, NilArg)>>
    /\ Done
    /\ \E c \in CallsOf("Do") : calls[c].ret = [out |-> <<"opened">>, err |-> NilErr]

\* C8: in do mode without a parse error the first matching enabled Action is
\* invoked once, with the remaining argument and the Envelope's data; its
\* string is the output, or "Error: <message>" when it fails, and nothing is
\* written when the output is empty; the example prints "opened"
C8_DoRunsFirstAction ==
    /\ (Done /\ Dispatched(ModeDo) /\ ParseOK) =>
        \A i \in C8_First :
            /\ Cardinality(CallsOf("Do")) = 1
            /\ CallsOf("Items") = {}
            /\ \A c \in CallsOf("Do") :
                /\ calls[c].cmd = i
                /\ calls[c].arg = arg
                /\ calls[c].data = data.Data
                /\ stdout = IF calls[c].ret.err.isErr
                            THEN <<Println(<<"Error: ">> \o calls[c].ret.err.msg)>>
                            ELSE IF calls[c].ret.out = <<>> THEN <<>>
                            ELSE <<Println(calls[c].ret.out)>>
    /\ C8_Example =>
        /\ stdout = <<Println(<<"opened">>)>>
        /\ \A c \in CallsOf("Do") :
            calls[c].arg = <<>> /\ calls[c].data = Plain(<<"/tmp/x">>)

C8_Witness == C8_Example /\ stdout = <<Println(<<"opened">>)>>

----------------------------------------------------------------------------
(* C9 *)

\* The keyword has been resolved
C9_Resolved == ParseOK /\ pc \notin {"parse", "stage", "resolve"} /\ ~Looped

\* t is s without the spaces around it
C9_Trimmed(t, s) ==
    /\ t = <<>> \/ (t[1] # SP /\ t[Len(t)] # SP)
    /\ \E i \in 1..(Len(s) + 1) :
        /\ i + Len(t) - 1 <= Len(s)
        /\ t = SubSeq(s, i, i + Len(t) - 1)
        /\ \A j \in 1..Len(s) : (j < i \/ j > i + Len(t) - 1) => s[j] = SP

\* C9: without an Envelope keyword, the raw argument k + " " + rest, k free
\* of spaces, resolves to (k, rest, k + " "), and the raw argument k to
\* (k, "", k): the prefix ends in a space exactly when the raw argument is
\* longer than the keyword. With an Envelope keyword, the keyword is the
\* Envelope's, the remainder the raw argument trimmed, the prefix empty
C9_KeywordResolution ==
    C9_Resolved =>
        IF data.Keyword = <<>>
        THEN /\ \A n \in 0..Len(RawArg) :
                    ( /\ NoSpace(SubSeq(RawArg, 1, n))
                      /\ n < Len(RawArg)
                      /\ RawArg[n + 1] = SP ) =>
                        /\ keyword = SubSeq(RawArg, 1, n)
                        /\ arg = SubSeq(RawArg, n + 2, Len(RawArg))
                        /\ prefix = SubSeq(RawArg, 1, n + 1)
             /\ NoSpace(RawArg) =>
                    keyword = RawArg /\ arg = <<>> /\ prefix = RawArg
             /\ prefix = IF Len(RawArg) > Len(keyword)
                         THEN keyword \o <<SP>> ELSE keyword
        ELSE /\ keyword = data.Keyword
             /\ C9_Trimmed(arg, RawArg)
             /\ prefix = <<>>

C9_Witness ==
    /\ C9_Resolved
    /\ data.Keyword = <<>>
    /\ RawArg = KwFind \o <<SP, "x">>
    /\ keyword = KwFind
    /\ arg = <<"x">>
    /\ prefix = KwFind \o <<SP>>

----------------------------------------------------------------------------
(* C10 *)

\* C10 as stated: every item of a list that is emitted carries the
\* invocation's Envelope
C10_EnvelopeAttached ==
    \A e \in 1..Len(stdout) :
        stdout[e].kind = "items" =>
            \A j \in 1..Len(stdout[e].items) : stdout[e].items[j].data = data

----------------------------------------------------------------------------
(* C11 *)

\* C11 as stated, for the invocations whose arguments parse: a mode that is
\* neither tell nor do prints one line that names the Envelope's mode, and
\* no command is invoked, no list emitted
C11_DiagnosticNamesMode ==
    (Done /\ ParseOK /\ ~Looped /\ data.Mode \notin {ModeTell, ModeDo}) =>
        /\ NoCommandCalled
        /\ stdout = <<Println(<<"Invalid mode: '", data.Mode, "'">>)>>

----------------------------------------------------------------------------
(* C12 *)

\* C12 as stated: with or without the -final flag, the mode switch is never
\* entered with the mode back
C12_BackNeverDispatched == pc = "switch" => data.Mode # ModeBack

----------------------------------------------------------------------------
(* C13 *)

\* The Envelope that a JSON text serializes
C13_Inner(w) == Env(w.Keyword, w.Mode, w.Mod, w.Data)

\* At the final stage the Envelope has the mode back and its data decodes
C13_Case ==
    /\ final
    /\ ParseOK
    /\ Parsed.data.Mode = ModeBack
    /\ Parsed.data.Data.k = "json"
    /\ Parsed.data.Data.bad = {}
    /\ pc \notin {"parse", "stage"}

\* C13 as stated: after the unwrap the Envelope equals, field for field, the
\* Envelope serialized in the data string; nothing of the outer one is left
C13_UnwrapReplaces ==
    (C13_Case /\ (pc = "resolve" \/ Looped)) => data = C13_Inner(Parsed.data.Data)

----------------------------------------------------------------------------
(* C14 *)

\* A parse error or an error of a Filter occurred
C14_ErrorOccurred ==
    Parsed.err.isErr \/ \E c \in CallsOf("Items") : calls[c].ret.err.isErr

\* The items the loop gathered: those the Filters returned on the
\* Envelope-keyword path, the menu items on the other
C14_Accumulated ==
    IF Parsed.err.isErr THEN {}
    ELSE IF data.Keyword # <<>>
    THEN UNION {{calls[c].ret.items[k] : k \in 1..Len(calls[c].ret.items)} :
                    c \in {x \in CallsOf("Items") : ~calls[x].ret.err.isErr}}
    ELSE {KeywordItem(commands[i]) :
            i \in {x \in 1..Len(commands) :
                    commands[x].IsEnabled /\ MenuSelected(commands[x], keyword)}}

\* C14 as stated: tell mode emits one list; after an error it is the one
\* item "Error: <message>" and nothing else, else without items the one item
\* "No results", else the items gathered
C14_TellFinalization ==
    (Done /\ Dispatched(ModeTell)) =>
        /\ Len(stdout) = 1
        /\ stdout[1].kind = "items"
        /\ IF C14_ErrorOccurred
           THEN /\ Len(stdout[1].items) = 1
                /\ stdout[1].items[1].Title[1] = "Error: "
           ELSE IF C14_Accumulated = {}
           THEN stdout[1].items = <<NoResultsItem>>
           ELSE {stdout[1].items[j] : j \in 1..Len(stdout[1].items)} = C14_Accumulated

----------------------------------------------------------------------------
(* C15 *)

\* The first enabled Filter, in registry order, with the Envelope's keyword
C15_First ==
    {i \in 1..Len(commands) :
        /\ commands[i].IsEnabled /\ commands[i].Filter
        /\ commands[i].Keyword = data.Keyword
        /\ \A j \in 1..(i - 1) :
            ~(commands[j].IsEnabled /\ commands[j].Filter
              /\ commands[j].Keyword = data.Keyword)}

\* C15 as stated: in tell mode with an Envelope keyword at most one Filter
\* is invoked, the first enabled one with that keyword, whatever the command
\* list; after a Filter's error no later command is tried, and that error is
\* the one emitted
C15_OnlyFirstFilter ==
    (Dispatched(ModeTell) /\ ParseOK /\ data.Keyword # <<>>) =>
        /\ Cardinality(CallsOf("Items")) <= 1
        /\ \A c \in CallsOf("Items") :
            /\ calls[c].cmd \in C15_First
            /\ (Done /\ calls[c].ret.err.isErr) =>
                    stdout = <<Emit(<<ErrorItem(calls[c].ret.err)>>)>>

----------------------------------------------------------------------------
(* C16 *)

\* The command gets a menu item for the typed keyword k
C16_Listed(c, k) ==
    c.IsEnabled /\ FuzzyMatches(c.Keyword, k) /\ (c.Filter \/ ~c.Arg.nil)

\* The registry positions of the commands listed, in registry order
RECURSIVE C16_Positions(_, _)
C16_Positions(n, k) ==
    IF n = 0 THEN <<>>
    ELSE IF C16_Listed(commands[n], k)
         THEN Append(C16_Positions(n - 1, k), n)
         ELSE C16_Positions(n - 1, k)

\* Tell mode, no Envelope keyword, no parse error, the loop is over and the
\* list is not ranked yet
C16_Case ==
    /\ pc = "tell_loop" /\ idx > Len(commands)
    /\ ParseOK /\ data.Keyword = <<>>

\* C16 as stated: the list holds, in registry order, one menu item for each
\* command listed and nothing else; the item has the command's keyword as
\* title and autocomplete, its description as subtitle, and as argument the
\* fixed argument, or else an Envelope with only the keyword; no Items or Do
\* was invoked
C16_MenuOfMenus ==
    C16_Case =>
        LET pos == C16_Positions(Len(commands), SplitCmd(RawArg).cmd) IN
        /\ Len(items) = Len(pos)
        /\ \A j \in 1..Len(pos) :
            LET c == commands[pos[j]] IN
            /\ items[j].Title = c.Keyword
            /\ items[j].Subtitle = c.Description
            /\ items[j].Autocomplete = c.Keyword
            /\ items[j].Arg =
                IF ~c.Arg.nil THEN c.Arg
                ELSE [nil |-> FALSE, Keyword |-> c.Keyword, Mode |-> "",
                      Data |-> NoData]
        /\ NoCommandCalled

\* Two commands are listed: the first without, the second with a fixed
\* argument
C16_Witness ==
    /\ C16_Case
    /\ Len(items) = 2
    /\ items[1].Arg.Mode = "" /\ items[1].Arg.Keyword = items[1].Title
    /\ items[2].Arg = FixedArg(KwOpen)

----------------------------------------------------------------------------
(* C17 *)

\* Do mode, no parse error, past the dismiss step
C17_Case ==
    /\ Dispatched(ModeDo) /\ ParseOK
    /\ pc \in {"do_select", "do_print", "done"}

\* What do mode writes, told from the commands and what Do answered alone
C17_Output ==
    IF SelectAction(commands, keyword) = 0
    THEN DoOutput(<<>>, NoValidCommand(arg))
    ELSE LET a == CHOOSE x \in CallsOf("Do") : TRUE
         IN DoOutput(calls[a].ret.out, calls[a].ret.err)

\* C17 as stated: the dismiss signal is sent once when Mod is empty and never
\* otherwise; it precedes the Action's Do; and whether it succeeded or failed,
\* the Action invoked is the first that matches and the output is the one its
\* answer determines
C17_DismissBeforeDo ==
    C17_Case =>
        /\ Cardinality(CallsOf("Dismiss")) = (IF data.Mod = "" THEN 1 ELSE 0)
        /\ \A d \in CallsOf("Dismiss") : \A a \in CallsOf("Do") : d < a
        /\ \A a \in CallsOf("Do") : calls[a].cmd = SelectAction(commands, keyword)
        /\ pc \in {"do_print", "done"} =>
                (CallsOf("Do") # {} <=> SelectAction(commands, keyword) # 0)
        /\ Done =>
                stdout = (IF C17_Output # <<>> THEN <<Println(C17_Output)>> ELSE <<>>)

\* The dismiss signal failed, and the Action ran and its output was written
C17_Witness ==
    /\ C17_Case /\ Done
    /\ \E d \in CallsOf("Dismiss") : ~calls[d].ret.ok
    /\ \E a \in CallsOf("Do") : calls[a].ret.out # <<>> /\ ~calls[a].ret.err.isErr
    /\ Len(stdout) = 1

----------------------------------------------------------------------------
(* C18 *)

\* Tell mode with an Envelope keyword has emitted its list
C18_Case ==
    /\ Done /\ Dispatched(ModeTell) /\ ParseOK
    /\ data.Keyword # <<>>

\* The item x with the prefix p before its autocomplete string, when it has one
C18_Prefixed(x, p) ==
    [x EXCEPT !.Autocomplete = IF x.Autocomplete # <<>>
                               THEN p \o x.Autocomplete ELSE <<>>]

\* C18 as stated: every item a Filter returned is emitted with the resolution
\* prefix before its autocomplete string, and with an empty autocomplete
\* string when it had none
C18_AutocompletePrefix ==
    C18_Case =>
        /\ prefix = ResolveKeyword(RawArg, Parsed.data.Keyword).prefix
        /\ \A c \in CallsOf("Items") :
            ~calls[c].ret.err.isErr =>
                \A k \in 1..Len(calls[c].ret.items) :
                    \E j \in 1..Len(stdout[1].items) :
                        stdout[1].items[j] = C18_Prefixed(calls[c].ret.items[k], prefix)

\* A Filter returned an item with and an item without an autocomplete
\* string, for a typed argument, and both were emitted
C18_Witness ==
    /\ C18_Case
    /\ RawArg # <<>>
    /\ \E c \in CallsOf("Items") : Len(calls[c].ret.items) = 2
    /\ \E j \in 1..Len(stdout[1].items) : stdout[1].items[j].Autocomplete # <<>>
    /\ \E j \in 1..Len(stdout[1].items) :
        stdout[1].items[j].Autocomplete = <<>> /\ stdout[1].items[j].Title = <<"b">>

----------------------------------------------------------------------------
(* C19 *)

\* The Envelope the stage check leaves: with the -final flag after the
\* empty-mode default and the unwrap, without it as parsed
C19_Envelope == IF final THEN FinalData(Parsed.data) ELSE Parsed.data

\* Past the stage check with a mode that is neither tell nor back
C19_Case ==
    /\ ParseOK
    /\ pc \notin {"parse", "stage"}
    /\ C19_Envelope.Mode \notin {"", ModeTell, ModeBack}

\* How an invocation proceeds from its Envelope and raw argument; the flag
\* is not mentioned
C19_Dispatch(e) ==
    LET r == ResolveKeyword(RawArg, e.Keyword) IN
    /\ data = e
    /\ IF pc = "resolve"
       THEN arg = RawArg /\ calls = <<>> /\ stdout = <<>>
       ELSE keyword = r.keyword /\ arg = r.arg /\ prefix = r.prefix
    /\ CallsOf("Items") = {}
    /\ IF e.Mode = ModeDo
       THEN /\ \A a \in CallsOf("Do") :
                /\ calls[a].cmd = SelectAction(commands, r.keyword)
                /\ calls[a].arg = r.arg
                /\ calls[a].data = e.Data
            /\ Done =>
                /\ CallsOf("Do") # {} <=> SelectAction(commands, r.keyword) # 0
                /\ stdout = (IF C17_Output # <<>> THEN <<Println(C17_Output)>> ELSE <<>>)
       ELSE /\ calls = <<>>
            /\ Done => stdout = <<Println(InvalidModeLine(""))>>

\* C19 as stated: with such a mode at the final stage no loopback trigger is
\* issued, and keyword resolution and the mode switch go as they go for the
\* same Envelope without the flag
C19_FinalFallsThrough ==
    C19_Case => ~Looped /\ C19_Dispatch(C19_Envelope)

\* With the -final flag, a back Envelope was unwrapped to one of mode do, and
\* its Action ran
C19_Witness ==
    /\ C19_Case /\ final /\ Done
    /\ Parsed.data.Mode = ModeBack
    /\ data.Mode = ModeDo
    /\ CallsOf("Do") # {}

----------------------------------------------------------------------------
(* C20 *)

\* The four outcomes, told from what the invocation left behind
C20_Loopback == Looped
C20_List == \E i \in 1..Len(stdout) : stdout[i].kind = "items"
C20_Invalid ==
    \E i \in 1..Len(stdout) :
        stdout[i].kind = "text" /\ stdout[i].text[1] = "Invalid mode: '"
C20_DoText ==
    /\ data.Mode = ModeDo
    /\ \A i \in 1..Len(stdout) :
        stdout[i].kind = "text" /\ stdout[i].text[1] # "Invalid mode: '"

C20_Outcomes ==
    Cardinality({o \in {"loopback", "list", "do", "invalid"} :
        \/ o = "loopback" /\ C20_Loopback
        \/ o = "list" /\ C20_List
        \/ o = "do" /\ C20_DoText /\ ~C20_Loopback
        \/ o = "invalid" /\ C20_Invalid})

\* C20 as stated: Run always goes on until it has ended, and has then exactly
\* one of the four outcomes; it writes at most once and nothing after a
\* loopback; Do is invoked at most once and only in do mode, Items only in
\* tell mode, neither after a loopback or with an invalid mode, and never on
\* a disabled command
C20_OneOutcome ==
    /\ ~Done => ENABLED Next
    /\ Done =>
        /\ C20_Outcomes = 1
        /\ Len(stdout) <= 1
        /\ C20_Loopback => stdout = <<>>
        /\ (C20_Loopback \/ C20_Invalid) => NoCommandCalled
    /\ Cardinality(CallsOf("Do")) <= 1
    /\ CallsOf("Do") # {} => data.Mode = ModeDo /\ CallsOf("Items") = {} /\ ~Looped
    /\ CallsOf("Items") # {} => data.Mode = ModeTell /\ ~Looped
    /\ \A c \in CallsOf("Do") :
        commands[calls[c].cmd].IsEnabled /\ commands[calls[c].cmd].Action
    /\ \A c \in CallsOf("Items") :
        commands[calls[c].cmd].IsEnabled /\ commands[calls[c].cmd].Filter

\* The do outcome with nothing written: the Action of the second command ran
\* and returned the empty string, the first command being disabled
C20_Witness ==
    /\ Done /\ C20_DoText /\ stdout = <<>>
    /\ \E c \in CallsOf("Do") : calls[c].cmd = 2
    /\ ~commands[1].IsEnabled /\ commands[1].Action /\ commands[1].Keyword = keyword

====
